---- MODULE Spec2Model ----
(***************************************************************************)
(* A model of snmpquery: the table walker (table.go), the batch read and   *)
(* the client's security configuration (client source), and the query      *)
(* batch builder (query.go).                                               *)
(*                                                                         *)
(* The transport (gosnmp) and the schema model (gosmi) are outside the     *)
(* repository.  The transport is modelled by what it may hand to the code: *)
(* any leaf to a walk callback, success or failure of a request.  The      *)
(* schema's value formatter is modelled as tagging the raw value with its  *)
(* kind.                                                                   *)
(***************************************************************************)
EXTENDS Integers, Sequences, FiniteSets, TLC

VARIABLES
    \* --- index decode (getIndex applied to drawn inputs) ---
    ixTable,    \* the table node handed to getIndex
    ixLen,      \* indexLen: the number of index values the caller supplied
    ixParts,    \* indexParts: the trailing sub-identifiers of one leaf
    ixOut,      \* the outcome of getIndex, once applied
    \* --- Client.Table / Client.GetAll ---
    pc,         \* "build" | "walk" | "done" | "panic"
    op,         \* "none" | "Table" | "GetAll": the operation called
    table,      \* the Table descriptor: [Node, columns]
    index,      \* the index values the caller supplied (sub-identifiers)
    col,        \* position of the column whose BulkWalk is in progress
    results,    \* the results mapping of the call: [isNil, rows]
    err,        \* the error of the call
    reads,      \* the transport's log of GetOID requests
    walks,      \* the transport's log of BulkWalk roots
    hist,       \* per column position, the leaves its walk callback received
    query,      \* the query handed to Client.GetAll by the caller
    \* --- security configuration ---
    snmp,       \* the client's gosnmp session, or NoClient
    secErr      \* the error of the last NewV3 / SetSecurity call

vars == <<ixTable, ixLen, ixParts, ixOut,
          pc, op, table, index, col, results, err, reads, walks, hist, query,
          snmp, secErr>>

(***************************************************************************)
(* Bounds of the model.                                                    *)
(***************************************************************************)
MaxIdx == 3        \* index columns of a table drawn for the index decode
MaxParts == 3      \* trailing sub-identifiers drawn for the index decode
MaxCols == 2       \* columns added to a Table descriptor
MaxLeaves == 2     \* leaves the walks of one Client.Table call deliver

\* Sub-identifiers drawn: one and two decimal digits, so that dotted
\* formatting is exercised (1.11 against 11.1).
SubIds == {1, 11}

\* Sequences over S of length lo..hi.
SeqsOf(S, lo, hi) == UNION {[1..n -> S] : n \in lo..hi}

(***************************************************************************)
(* Values.  models.Value carries a formatted and a raw form; the formatter *)
(* is the schema model's.  A Value here is its raw form tagged by kind.    *)
(***************************************************************************)
ZeroValue == [Kind |-> "zero", Raw |-> <<>>]
IntValue(n) == [Kind |-> "int", Raw |-> <<n>>]
BytesValue(s) == [Kind |-> "bytes", Raw |-> s]
StringValue(s) == [Kind |-> "string", Raw |-> s]

\* IndexNode.FormatValue(val, models.FormatAll) / Column.FormatValue(val).
FormatValue(baseType, val) ==
    IF baseType = "OctetString" THEN BytesValue(val) ELSE IntValue(val)

min(a, b) == IF a < b THEN a ELSE b

(***************************************************************************)
(* getIndex (table.go, current variant).  A Go slice expression s[:l] or   *)
(* s[l:] panics unless 0 <= l <= len(s) (cap(s) >= len(s), and l never     *)
(* exceeds len(s) here); s[0] panics on an empty slice.  A panic returns   *)
(* nothing to the caller.                                                  *)
(***************************************************************************)
Panicked == [panic |-> TRUE, index |-> <<>>]

RECURSIVE getIndexLoop(_, _, _, _, _)
getIndexLoop(indices, indexLen, i, indexParts, idx) ==
    LET numIndices == Len(indices) IN
    IF i >= numIndices - indexLen
    THEN [panic |-> FALSE, index |-> idx]
    ELSE
      LET indexNode == indices[i + indexLen + 1] IN
      IF indexNode.BaseType = "OctetString"
      THEN
        LET maxLen == Len(indexParts) - numIndices + i + 1
            l == IF Len(indexNode.Ranges) = 1
                 THEN min(indexNode.Ranges[1].MaxValue, maxLen)
                 ELSE maxLen
        IN
        IF l < 0 \/ l > Len(indexParts)
        THEN Panicked
        ELSE getIndexLoop(indices, indexLen, i + 1,
                 SubSeq(indexParts, l + 1, Len(indexParts)),
                 [idx EXCEPT ![i + 1] =
                     FormatValue(indexNode.BaseType, SubSeq(indexParts, 1, l))])
      ELSE
        IF Len(indexParts) = 0
        THEN Panicked
        ELSE getIndexLoop(indices, indexLen, i + 1, Tail(indexParts),
                 [idx EXCEPT ![i + 1] =
                     FormatValue(indexNode.BaseType, Head(indexParts))])

\* make([]models.Value, numIndices): one zero Value per index column of the
\* table, whatever the caller supplied.
getIndexAlloc(tableNode, indexLen) ==
    [k \in 1..Len(tableNode.Index) |-> ZeroValue]

getIndex(tableNode, indexLen, indexParts) ==
    getIndexLoop(tableNode.Index, indexLen, 0, indexParts,
                 getIndexAlloc(tableNode, indexLen))

(***************************************************************************)
(* The index decode on drawn inputs.                                       *)
(***************************************************************************)
IntegerIdx == [Name |-> "i", BaseType |-> "Integer", Ranges |-> <<>>]
OctetIdx == [Name |-> "s", BaseType |-> "OctetString", Ranges |-> <<>>]
OctetIdxRanged(m) ==
    [Name |-> "r", BaseType |-> "OctetString", Ranges |-> <<[MaxValue |-> m]>>]

IndexNodes == {IntegerIdx, OctetIdx, OctetIdxRanged(1), OctetIdxRanged(2)}

NoOut == [done |-> FALSE, panic |-> FALSE, index |-> <<>>]

InitIx ==
    /\ ixTable \in [Index : SeqsOf(IndexNodes, 1, MaxIdx), Implied : BOOLEAN]
    /\ ixLen \in 0..(Len(ixTable.Index) - 1)
    /\ ixParts \in SeqsOf(SubIds, 0, MaxParts)
    /\ ixOut = NoOut

Decode ==
    /\ ~ixOut.done
    /\ LET r == getIndex(ixTable, ixLen, ixParts) IN
       ixOut' = [done |-> TRUE, panic |-> r.panic, index |-> r.index]
    /\ UNCHANGED <<ixTable, ixLen, ixParts>>
    /\ UNCHANGED <<pc, op, table, index, col, results, err, reads, walks, hist,
                   query, snmp, secErr>>

(***************************************************************************)
(* The schema: column nodes and table nodes (gosmi's models.ColumnNode and *)
(* models.TableNode), and object identifiers in their dotted form.         *)
(***************************************************************************)
RECURSIVE Join(_, _)
\* strings.Join(elems, sep)
Join(elems, sep) ==
    IF Len(elems) = 0 THEN ""
    ELSE IF Len(elems) = 1 THEN elems[1]
    ELSE elems[1] \o sep \o Join(Tail(elems), sep)

\* The decimal text of each sub-identifier.
Texts(subids) == [k \in 1..Len(subids) |-> ToString(subids[k])]

\* node.OidFormatted
OidFormatted(node) == Join(Texts(node.Oid), ".")

IfDescr == [Name |-> "ifDescr", Oid |-> <<1, 3, 2>>, BaseType |-> "OctetString"]
IfSpeed == [Name |-> "ifSpeed", Oid |-> <<1, 3, 5>>, BaseType |-> "Integer"]
SysName == [Name |-> "sysName", Oid |-> <<1, 4>>, BaseType |-> "OctetString"]

ColumnNodes == {IfDescr, IfSpeed, SysName}

\* Index columns [Integer, OctetString], the last one implied.
TblImplied ==
    [Name |-> "tblImplied", Index |-> <<IntegerIdx, OctetIdx>>, Implied |-> TRUE,
     Columns |-> <<IfDescr, IfSpeed>>]
\* Index columns [Integer, Integer].
TblInts ==
    [Name |-> "tblInts", Index |-> <<IntegerIdx, IntegerIdx>>, Implied |-> FALSE,
     Columns |-> <<IfDescr, IfSpeed>>]
\* A table whose schema declares no column.
TblBare ==
    [Name |-> "tblBare", Index |-> <<IntegerIdx>>, Implied |-> FALSE,
     Columns |-> <<>>]

TableNodes == {TblImplied, TblInts, TblBare}

\* Whether a column node is one of the table's declared columns.
InTable(node, tableNode) ==
    \E k \in 1..Len(tableNode.Columns) : tableNode.Columns[k] = node

(***************************************************************************)
(* Table descriptors (table.go).  A column's display format is resolved by *)
(* the schema model and is left out.                                       *)
(***************************************************************************)
NewTable(node) == [Node |-> node, columns |-> <<>>]

Table_NamedColumn(t, name, node) ==
    [t EXCEPT !.columns = Append(@, [Name |-> name, Node |-> node])]

Table_Column(t, node) == Table_NamedColumn(t, node.Name, node)

Columns(t) ==
    IF Len(t.columns) > 0 THEN t.columns
    ELSE [k \in 1..Len(t.Node.Columns) |->
             [Name |-> t.Node.Columns[k].Name, Node |-> t.Node.Columns[k]]]

(***************************************************************************)
(* Query batches (query.go).  The item's value formatter is the schema     *)
(* model's formatter for the node's type: it is kept as that type.         *)
(***************************************************************************)
EmptyQuery == [Items |-> <<>>]

add(q, name, t, oid) ==
    [q EXCEPT !.Items = Append(@, [Format |-> t, Name |-> name, Oid |-> oid])]

Query_NamedColumn(q, name, node, idx) ==
    add(q, name, node.BaseType, OidFormatted(node) \o "." \o idx)

Query_Column(q, node, idx) ==
    add(q, node.Name, node.BaseType, OidFormatted(node) \o "." \o idx)

(***************************************************************************)
(* The transport.  The value stored at an object identifier is identified  *)
(* by that identifier.  A request succeeds or fails.                       *)
(***************************************************************************)
DevValue(oid) == oid

NoError == [msg |-> "", about |-> ""]
\* No client constructed yet.
NoClient ==
    [Version |-> "none", Community |-> "", MsgFlags |-> "",
     SecurityParameters |-> [set |-> FALSE]]
TransportError == [msg |-> "transport", about |-> ""]
Errorf(msg, about) == [msg |-> msg, about |-> about]
\* errors.Wrap(err, "SNMP Get")
Wrap(e, msg) == [msg |-> msg, about |-> e.msg]

NilResults == [isNil |-> TRUE, rows |-> <<>>]
MakeResults == [isNil |-> FALSE, rows |-> <<>>]

\* The value of a data column as walkFunc and GetAll record it.
DataValue(baseType, raw) ==
    IF baseType \in {"OctetString", "Bits"}
    THEN [Kind |-> "raw", Raw |-> raw]
    ELSE [Kind |-> "int64", Raw |-> raw]

(***************************************************************************)
(* Client.GetAll.  ok is the transport's outcome of the one GetOID request.*)
(* Yields the values mapping (vnil: a nil mapping), the error and the      *)
(* requests issued.                                                        *)
(***************************************************************************)
RECURSIVE GetAllFill(_, _, _)
\* for i, variable := range result.Variables { results[Name] = Format(Value) }
GetAllFill(items, i, values) ==
    IF i > Len(items) THEN values
    ELSE GetAllFill(items, i + 1,
             [n \in DOMAIN values \cup {items[i].Name} |->
                 IF n = items[i].Name
                 THEN DataValue(items[i].Format, DevValue(items[i].Oid))
                 ELSE values[n]])

\* GetAll, were each item read by a request of its own.
GetAllPerItem(q, ok) ==
    IF Len(q.Items) = 0
    THEN [vnil |-> TRUE, values |-> <<>>,
          err |-> Errorf("No items in query", ""), reads |-> <<>>]
    ELSE
      LET each == [k \in 1..Len(q.Items) |-> <<q.Items[k].Oid>>] IN
      IF ~ok
      THEN [vnil |-> TRUE, values |-> <<>>,
            err |-> Wrap(TransportError, "SNMP Get"), reads |-> <<each[1]>>]
      ELSE [vnil |-> FALSE, values |-> GetAllFill(q.Items, 1, <<>>),
            err |-> NoError, reads |-> each]

\* GetAll, were the query not checked for items before the request.
GetAllUnchecked(q, ok) ==
    LET oids == [k \in 1..Len(q.Items) |-> q.Items[k].Oid] IN
    IF ~ok
    THEN [vnil |-> TRUE, values |-> <<>>,
          err |-> Wrap(TransportError, "SNMP Get"), reads |-> <<oids>>]
    ELSE [vnil |-> FALSE, values |-> GetAllFill(q.Items, 1, <<>>),
          err |-> NoError, reads |-> <<oids>>]

GetAll(q, ok) ==
    IF Len(q.Items) = 0
    THEN [vnil |-> TRUE, values |-> <<>>,
          err |-> Errorf("No items in query", ""), reads |-> <<>>]
    ELSE
      LET oids == [k \in 1..Len(q.Items) |-> q.Items[k].Oid] IN
      IF ~ok
      THEN [vnil |-> TRUE, values |-> <<>>,
            err |-> Wrap(TransportError, "SNMP Get"), reads |-> <<oids>>]
      ELSE [vnil |-> FALSE, values |-> GetAllFill(q.Items, 1, <<>>),
            err |-> NoError, reads |-> <<oids>>]

(***************************************************************************)
(* Client.singleRow                                                        *)
(***************************************************************************)
RECURSIVE singleRowQuery(_, _, _, _)
singleRowQuery(columns, columnIndex, k, q) ==
    IF k > Len(columns) THEN q
    ELSE singleRowQuery(columns, columnIndex, k + 1,
             Query_NamedColumn(q, columns[k].Name, columns[k].Node, columnIndex))

\* Row{Index: make([]models.Value, len(index)), ...} filled from the
\* caller's index values.
singleRowIndex(idx) == [k \in 1..Len(idx) |-> StringValue(idx[k])]

singleRow(tableNode, columns, idx, ok) ==
    LET columnIndex == Join(idx, ".")
        q == singleRowQuery(columns, columnIndex, 1, EmptyQuery)
        got == GetAll(q, ok)
    IN
    IF got.err # NoError
    THEN [results |-> NilResults, err |-> got.err, reads |-> got.reads]
    ELSE [results |->
              [isNil |-> FALSE,
               rows |-> [key \in {columnIndex} |->
                            [Index |-> singleRowIndex(idx),
                             Values |-> got.values]]],
          err |-> NoError, reads |-> got.reads]

(***************************************************************************)
(* Leaves (gosnmp.SnmpPDU) as the transport hands them to a walk callback: *)
(* the identifier in both its forms, the leaf kind and the raw value.      *)
(***************************************************************************)
\* Trailing sub-identifiers of a walked leaf: up to one per index column.
Suffixes(tableNode) == SeqsOf(SubIds, 1, Len(tableNode.Index))
SignalTypes == {"NoSuchObject", "NoSuchInstance", "EndOfMibView"}

\* A normal leaf under the column's walk root, with the given trailing
\* sub-identifiers.
Leaf(column, idx, suffix) ==
    LET oid == column.Node.Oid \o idx \o suffix IN
    [Type |-> "Normal", Name |-> "." \o Join(Texts(oid), "."), Oid |-> oid,
     Value |-> DevValue(Join(Texts(oid), "."))]

\* A terminal-signal leaf.
Signal(column, idx, type) ==
    LET oid == column.Node.Oid \o idx IN
    [Type |-> type, Name |-> "." \o Join(Texts(oid), "."), Oid |-> oid,
     Value |-> ""]

\* What the transport may deliver next: a leaf kind and, for a normal
\* leaf, its trailing sub-identifiers.
LeafChoices(tableNode) ==
    {<<"Normal", s>> : s \in Suffixes(tableNode)}
        \cup {<<t, <<>>>> : t \in SignalTypes}

Pdu(column, idx, choice) ==
    IF choice[1] = "Normal"
    THEN Leaf(column, idx, choice[2])
    ELSE Signal(column, idx, choice[1])

(***************************************************************************)
(* walkFunc: the callback of one column's walk, applied to one leaf.       *)
(* Yields the error returned, the results mapping as the callback leaves   *)
(* it, and whether the callback panicked.                                  *)
(***************************************************************************)
\* rootOid as Client.Table computes it for a column.
RootOid(column, idx) ==
    IF Len(idx) > 0
    THEN OidFormatted(column.Node) \o "." \o Join(idx, ".")
    ELSE OidFormatted(column.Node)

\* index := pdu.Name[len(rootOid)+2:]
RowKey(rootOid, pdu) == SubSeq(pdu.Name, Len(rootOid) + 3, Len(pdu.Name))

\* SetValue, were the Row's Values mapping made anew on every leaf.
SetValueFresh(rows, key, name, value) ==
    [rows EXCEPT ![key].Values = [n \in {name} |-> value]]

\* results[index].Values[column.Name] = column.FormatValue(val)
SetValue(rows, key, name, value) ==
    [rows EXCEPT ![key].Values =
        [n \in DOMAIN @ \cup {name} |-> IF n = name THEN value ELSE @[n]]]

\* results[index] = Row{Index: rowIndex, Values: make(map...)}
NewRow(rows, key, rowIndex) ==
    [k \in DOMAIN rows \cup {key} |->
        IF k = key THEN [Index |-> rowIndex, Values |-> <<>>] ELSE rows[k]]

\* walkSignal, were no-such-instance handled like no-such-object.
walkSignalStrict(column, pdu) ==
    IF pdu.Type \in {"NoSuchObject", "NoSuchInstance"}
    THEN Errorf("No such object for", column.Node.Name)
    ELSE NoError

\* switch pdu.Type: the error the callback returns for a terminal signal.
walkSignal(column, pdu) ==
    IF pdu.Type = "NoSuchObject"
    THEN Errorf("No such object for", column.Node.Name)
    ELSE NoError

walkFunc(tableNode, column, numColumns, idx, rootOid, res, pdu) ==
    LET indexLen == Len(idx) IN
    IF pdu.Type \in {"NoSuchObject", "NoSuchInstance", "EndOfMibView"}
    THEN [err |-> walkSignal(column, pdu), results |-> res, panic |-> FALSE]
    ELSE IF Len(rootOid) + 2 > Len(pdu.Name)
    THEN [err |-> NoError, results |-> res, panic |-> TRUE]
    ELSE
      LET key == RowKey(rootOid, pdu)
          low == Len(column.Node.Oid) + indexLen
          value == DataValue(column.Node.BaseType, pdu.Value)
      IN
      IF key \in DOMAIN res.rows
      THEN [err |-> NoError,
            results |-> [res EXCEPT !.rows = SetValue(@, key, column.Name, value)],
            panic |-> FALSE]
      ELSE IF low > Len(pdu.Oid)
      THEN [err |-> NoError, results |-> res, panic |-> TRUE]
      ELSE
        LET indexParts == SubSeq(pdu.Oid, low + 1, Len(pdu.Oid))
            rowIndex == getIndex(tableNode, indexLen, indexParts)
        IN
        IF rowIndex.panic
        THEN [err |-> NoError, results |-> res, panic |-> TRUE]
        ELSE [err |-> NoError,
              results |-> [res EXCEPT !.rows =
                              SetValue(NewRow(@, key, rowIndex.index),
                                       key, column.Name, value)],
              panic |-> FALSE]

(***************************************************************************)
(* The client's operations as actions.  A Table descriptor is built by     *)
(* NewTable and then Column / NamedColumn; Client.Table or Client.GetAll   *)
(* is then called once.                                                    *)
(***************************************************************************)
\* What a caller adds to a descriptor: Column(ifDescr), Column(sysName) and
\* NamedColumn("ifDescr", ifSpeed).  A descriptor left without columns
\* stands for the table's declared columns.
AddedNodes == {IfDescr, SysName}
GivenNames == {"ifDescr"}
NamedNodes == {IfSpeed}
\* Index values a caller supplies.
CallerIds == {11}

NoHist == <<>>

RECURSIVE Total(_)
\* The number of leaves delivered so far, over all columns.
Total(h) == IF Len(h) = 0 THEN 0 ELSE Len(Head(h)) + Total(Tail(h))

ixVars == <<ixTable, ixLen, ixParts, ixOut>>
tblVars == <<pc, op, table, index, col, results, err, reads, walks, hist, query>>

InitTbl ==
    /\ pc = "build"
    /\ op = "none"
    /\ table \in {NewTable(n) : n \in TableNodes}
    /\ index = <<>>
    /\ col = 0
    /\ results = NilResults
    /\ err = NoError
    /\ reads = <<>>
    /\ walks = <<>>
    /\ hist = NoHist
    /\ query = EmptyQuery

\* Table.Column
AddColumn(node) ==
    /\ pc = "build"
    /\ Len(table.columns) < MaxCols
    /\ table' = Table_Column(table, node)
    /\ UNCHANGED <<op, pc, index, col, results, err, reads, walks, hist>>
    /\ UNCHANGED <<ixVars, snmp, secErr, query>>

\* Table.NamedColumn
AddNamedColumn(name, node) ==
    /\ pc = "build"
    /\ Len(table.columns) < MaxCols
    /\ table' = Table_NamedColumn(table, name, node)
    /\ UNCHANGED <<op, pc, index, col, results, err, reads, walks, hist>>
    /\ UNCHANGED <<ixVars, snmp, secErr, query>>

\* Client.GetAll called by the caller with a query it built.
Queries ==
    {EmptyQuery}
        \cup {Query_Column(EmptyQuery, n, ToString(i)) :
                 n \in ColumnNodes, i \in CallerIds}
        \cup {Query_NamedColumn(Query_Column(EmptyQuery, IfDescr, ToString(i)),
                                name, n, ToString(i)) :
                 name \in GivenNames, n \in ColumnNodes, i \in CallerIds}

CallGetAll(q, ok) ==
    /\ pc = "build"
    /\ LET got == GetAll(q, ok) IN
       /\ results' = [isNil |-> got.vnil,
                      rows |-> IF got.vnil THEN <<>>
                               ELSE [k \in {""} |->
                                        [Index |-> <<>>, Values |-> got.values]]]
       /\ err' = got.err
       /\ reads' = reads \o got.reads
    /\ pc' = "done"
    /\ op' = "GetAll"
    /\ query' = q
    /\ UNCHANGED <<table, index, col, walks, hist>>
    /\ UNCHANGED <<ixVars, snmp, secErr>>

\* Client.Table up to its return or its first BulkWalk.
Table(idx, ok) ==
    /\ pc = "build"
    /\ op' = "Table"
    /\ index' = idx
    /\ LET columns == Columns(table)
           numColumns == Len(columns)
           indexLen == Len(idx)
       IN
       IF numColumns = 0
       THEN /\ results' = NilResults
            /\ err' = Errorf("No columns given", "")
            /\ pc' = "done"
            /\ UNCHANGED <<col, reads, walks, hist>>
       ELSE IF indexLen = Len(table.Node.Index)
       THEN LET r == singleRow(table.Node, columns, Texts(idx), ok) IN
            /\ results' = r.results
            /\ err' = r.err
            /\ reads' = reads \o r.reads
            /\ pc' = "done"
            /\ UNCHANGED <<col, walks, hist>>
       ELSE /\ results' = MakeResults
            /\ err' = NoError
            /\ col' = 1
            /\ walks' = Append(walks, RootOid(columns[1], Texts(idx)))
            /\ hist' = [k \in 1..numColumns |-> <<>>]
            /\ pc' = "walk"
            /\ UNCHANGED reads
    /\ UNCHANGED table
    /\ UNCHANGED <<ixVars, snmp, secErr, query>>

\* The transport hands one leaf to the callback of the walk in progress.
WalkLeaf(choice) ==
    /\ pc = "walk"
    /\ Total(hist) < MaxLeaves
    /\ LET columns == Columns(table)
           column == columns[col]
           pdu == Pdu(column, index, choice)
           r == walkFunc(table.Node, column, Len(columns), Texts(index),
                         RootOid(column, Texts(index)), results, pdu)
       IN
       /\ hist' = [hist EXCEPT ![col] = Append(@, pdu)]
       /\ results' = r.results
       /\ IF r.panic
          THEN pc' = "panic" /\ err' = err
          ELSE IF r.err # NoError
          THEN pc' = "done" /\ err' = r.err
          ELSE pc' = "walk" /\ err' = err
    /\ UNCHANGED <<op, table, index, col, reads, walks>>
    /\ UNCHANGED <<ixVars, snmp, secErr, query>>

\* BulkWalk returns: with the transport's error, or nil, and then the next
\* column's BulkWalk starts or Client.Table returns.
WalkReturn(ok) ==
    /\ pc = "walk"
    /\ IF ~ok
       THEN /\ err' = TransportError
            /\ pc' = "done"
            /\ UNCHANGED <<col, walks>>
       ELSE IF col < Len(Columns(table))
       THEN /\ col' = col + 1
            /\ walks' = Append(walks,
                   RootOid(Columns(table)[col + 1], Texts(index)))
            /\ UNCHANGED <<pc, err>>
       ELSE /\ pc' = "done"
            /\ UNCHANGED <<col, walks, err>>
    /\ UNCHANGED <<op, table, index, results, reads, hist>>
    /\ UNCHANGED <<ixVars, snmp, secErr, query>>

Init ==
    /\ InitTbl
    /\ ixTable = [Index |-> <<IntegerIdx>>, Implied |-> FALSE]
    /\ ixLen = 0
    /\ ixParts = <<>>
    /\ ixOut = NoOut
    /\ snmp = NoClient
    /\ secErr = NoError

Next ==
    \/ \E n \in AddedNodes : AddColumn(n)
    \/ \E name \in GivenNames, n \in NamedNodes : AddNamedColumn(name, n)
    \/ \E q \in Queries, ok \in BOOLEAN : CallGetAll(q, ok)
    \/ \E idx \in SeqsOf(CallerIds, 0, Len(table.Node.Index)), ok \in BOOLEAN :
          Table(idx, ok)
    \/ \E choice \in LeafChoices(table.Node) : WalkLeaf(choice)
    \/ \E ok \in BOOLEAN : WalkReturn(ok)

Spec == Init /\ [][Next]_vars

InitIndex == InitIx /\ InitTbl /\ snmp = NoClient /\ secErr = NoError

NextIndex == Decode

SpecIndex == InitIndex /\ [][NextIndex]_vars

(***************************************************************************)
(* Properties of Client.Table and Client.GetAll (specification Spec).      *)
(***************************************************************************)
\* The delivered leaves, as <<column position, position in its walk>>.
Delivered == UNION {{<<k, j>> : j \in 1..Len(hist[k])} : k \in 1..Len(hist)}

\* The raw trailing sub-identifiers of a leaf delivered to column k: its
\* identifier without the column's root and the supplied index values.
Trailing(k, pdu) ==
    SubSeq(pdu.Oid, Len(Columns(table)[k].Node.Oid) + Len(index) + 1,
           Len(pdu.Oid))

\* The key of the Row in which the walk of column k records a leaf.
RecordedIn(k, pdu) == RowKey(RootOid(Columns(table)[k], Texts(index)), pdu)

Last(seq) == seq[Len(seq)]

Returned == op = "Table" /\ pc = "done"
FullIndex == Len(index) = Len(table.Node.Index)
Walked == Returned /\ Len(Columns(table)) > 0 /\ ~FullIndex

C1_Failed ==
    \A d \in Delivered :
        hist[d[1]][d[2]].Type = "NoSuchObject"
            => /\ pc = "done"
               /\ err = Errorf("No such object for",
                               Columns(table)[d[1]].Node.Name)

C1_RowsKept ==
    (Walked /\ err = NoError) =>
        \A d \in Delivered :
            LET pdu == hist[d[1]][d[2]]
                key == Join(Texts(Trailing(d[1], pdu)), ".")
            IN
            pdu.Type = "Normal"
                => /\ ~results.isNil
                   /\ key \in DOMAIN results.rows
                   /\ Columns(table)[d[1]].Name \in DOMAIN results.rows[key].Values

C1_Step ==
    (pc = "walk" /\ hist' # hist) =>
        LET pdu == Last(hist'[col]) IN
        /\ pdu.Type \in {"NoSuchInstance", "EndOfMibView"}
              => results' = results /\ err' = NoError /\ pc' = "walk"
        /\ pdu.Type = "NoSuchObject"
              => /\ pc' = "done"
                 /\ err' = Errorf("No such object for",
                                  Columns(table)[col].Node.Name)

\* C1: in a partial-index Client.Table, a no-such-object leaf makes the
\* operation fail with an error naming the column; a no-such-instance or
\* end-of-view leaf returns no error, leaves the results mapping unchanged
\* and does not abort the walk, and the rows of the normal leaves are in the
\* mapping returned.
C1_Signals == [](C1_Failed /\ C1_RowsKept) /\ [][C1_Step]_vars

\* A walk received a no-such-instance or end-of-view leaf and then a normal
\* leaf, and Client.Table returned the row of that leaf.
C1_Witness ==
    /\ Walked /\ err = NoError
    /\ \E d \in Delivered :
          /\ hist[d[1]][d[2]].Type \in {"NoSuchInstance", "EndOfMibView"}
          /\ d[2] < Len(hist[d[1]])
          /\ hist[d[1]][d[2] + 1].Type = "Normal"
    /\ DOMAIN results.rows # {}

\* C2: with as many index values as the table has index columns,
\* Client.Table issues exactly one read request, for every requested column
\* at that index, starts no traversal, and returns a one-entry mapping keyed
\* by the index values joined by "."; if the read fails, it returns an error
\* and no mapping.
C2_DirectRead ==
    (Returned /\ Len(Columns(table)) > 0 /\ FullIndex) =>
        LET columns == Columns(table)
            key == Join(Texts(index), ".")
        IN
        /\ Len(reads) = 1
        /\ reads[1] = [k \in 1..Len(columns) |->
                          OidFormatted(columns[k].Node) \o "." \o key]
        /\ walks = <<>>
        /\ err = NoError => ~results.isNil /\ DOMAIN results.rows = {key}
        /\ err # NoError => results = NilResults

\* A direct read of two columns at a two-value index returned its row.
C2_Witness ==
    /\ Returned /\ FullIndex /\ err = NoError
    /\ Len(index) = 2
    /\ Len(Columns(table)) = 2
    /\ Len(reads) = 1

\* C3: Client.Table on a table whose effective column list is empty, and
\* Client.GetAll on a query without items, return a validation error and a
\* nil result, and no read request or traversal is issued.
C3_Validation ==
    /\ (Returned /\ Len(Columns(table)) = 0) =>
          /\ err = Errorf("No columns given", "")
          /\ results = NilResults
          /\ reads = <<>> /\ walks = <<>>
    /\ (op = "Table" /\ Len(Columns(table)) = 0) => pc = "done"
    /\ (op = "GetAll" /\ Len(query.Items) = 0) =>
          /\ pc = "done"
          /\ err = Errorf("No items in query", "")
          /\ results = NilResults
          /\ reads = <<>> /\ walks = <<>>

\* Client.GetAll returned for a query without items.
C3_Witness == op = "GetAll" /\ pc = "done" /\ Len(query.Items) = 0

\* Client.Table returned for a descriptor without columns on a table that
\* declares none.
C3_WitnessTable == Returned /\ Len(Columns(table)) = 0

\* C4: when the traversal of a column fails, Client.Table returns an error
\* and none of the rows accumulated so far, and walks no later column.
C4_NoPartial ==
    (Walked /\ err # NoError) =>
        /\ DOMAIN results.rows = {}
        /\ Len(walks) = col

\* C7: every Row of a mapping returned by Client.Table has an Index of
\* length (total index columns - index values supplied).
C7_IndexLength ==
    (Returned /\ err = NoError) =>
        \A key \in DOMAIN results.rows :
            Len(results.rows[key].Index) = Len(table.Node.Index) - Len(index)

\* C8: a descriptor holding a column that is not one of the table's columns
\* makes Client.Table fail with a validation error, with no read request
\* and no traversal issued.  Stated for tables that declare columns.
C8_Membership ==
    (op = "Table"
        /\ Len(table.Node.Columns) > 0
        /\ \E k \in 1..Len(Columns(table)) :
              ~InTable(Columns(table)[k].Node, table.Node)) =>
        /\ pc = "done"
        /\ err # NoError
        /\ reads = <<>> /\ walks = <<>>

(***************************************************************************)
(* C10: the walks of Client.Table replayed over the leaves each column     *)
(* received, with the columns in another order.                            *)
(***************************************************************************)
RECURSIVE ReplayLeaves(_, _, _, _)
ReplayLeaves(column, leaves, j, res) ==
    IF j > Len(leaves) THEN res
    ELSE ReplayLeaves(column, leaves, j + 1,
             walkFunc(table.Node, column, Len(Columns(table)), Texts(index),
                      RootOid(column, Texts(index)), res, leaves[j]).results)

RECURSIVE ReplayColumns(_, _, _)
\* for _, column := range columns { BulkWalk(rootOid, fn) }, columns taken
\* in the given order of positions.
ReplayColumns(order, k, res) ==
    IF k > Len(order) THEN res
    ELSE ReplayColumns(order, k + 1,
             ReplayLeaves(Columns(table)[order[k]], hist[order[k]], 1, res))

Orders(n) == {p \in [1..n -> 1..n] : \A i, j \in 1..n : p[i] = p[j] => i = j}

DistinctNames ==
    \A i, j \in 1..Len(Columns(table)) :
        Columns(table)[i].Name = Columns(table)[j].Name => i = j

NormalLeaves == {d \in Delivered : hist[d[1]][d[2]].Type = "Normal"}

SameRowIffSameTrailing ==
    \A d, e \in NormalLeaves :
        LET p == hist[d[1]][d[2]]
            q == hist[e[1]][e[2]]
        IN
        (RecordedIn(d[1], p) = RecordedIn(e[1], q))
            <=> (Trailing(d[1], p) = Trailing(e[1], q))

AnyOrderSameMapping ==
    \A order \in Orders(Len(Columns(table))) :
        ReplayColumns(order, 1, MakeResults) = results

\* C10 as stated: after a partial-index Client.Table whose walks all
\* succeeded, two leaves are in the same Row iff their raw trailing
\* sub-identifiers are equal, and the mapping is the same for every order
\* of the columns.
C10_AnyColumns ==
    (Walked /\ err = NoError) => SameRowIffSameTrailing /\ AnyOrderSameMapping

\* C10 amended: the same, for requested columns with pairwise distinct
\* names.
C10_DistinctNames ==
    (Walked /\ err = NoError /\ DistinctNames) =>
        SameRowIffSameTrailing /\ AnyOrderSameMapping

\* Two columns with distinct names were walked, each received a normal leaf
\* of the same row, and Client.Table returned.
C10_Witness ==
    /\ Walked /\ err = NoError /\ DistinctNames
    /\ Len(hist) = 2
    /\ \E d, e \in NormalLeaves :
          /\ d[1] = 1 /\ e[1] = 2
          /\ Trailing(1, hist[1][d[2]]) = Trailing(2, hist[2][e[2]])

(***************************************************************************)
(* Properties of the index decode (specification SpecIndex).               *)
(***************************************************************************)
\* The index columns left to decode, and those of them before the last.
Remaining == Len(ixTable.Index) - ixLen
Earlier == ixLen + 1 .. Len(ixTable.Index) - 1

\* C5: with an implied OctetString as last index column, the decode takes
\* one sub-identifier per earlier fixed-width column and gives the last
\* column all the sub-identifiers that remain, whatever the number of index
\* values supplied.  Stated for a last column without a declared size range,
\* trailing sub-identifiers that cover the earlier columns, and a decode that
\* returned an index.
C5_ImpliedRemainder ==
    (/\ ixOut.done /\ ~ixOut.panic
     /\ ixTable.Implied
     /\ Last(ixTable.Index) = OctetIdx
     /\ \A k \in Earlier : ixTable.Index[k].BaseType = "Integer"
     /\ Len(ixParts) >= Remaining - 1) =>
        /\ \A i \in 1..(Remaining - 1) : ixOut.index[i] = IntValue(ixParts[i])
        /\ ixOut.index[Remaining] =
              BytesValue(SubSeq(ixParts, Remaining, Len(ixParts)))

\* C6: whatever the index columns, the number of supplied values and the
\* trailing sub-identifiers, the decode ends by returning an index: it never
\* faults on an access outside the trailing sequence.
C6_NoFault == ixOut.done => ~ixOut.panic

(***************************************************************************)
(* Security configuration (client source).  Passwords are strings of the   *)
(* form "protocol:passphrase".                                             *)
(***************************************************************************)
RECURSIVE IndexOf(_, _, _)
\* The position of the first sep in s from position i on, or 0.
IndexOf(s, sep, i) ==
    IF i > Len(s) THEN 0
    ELSE IF SubSeq(s, i, i) = sep THEN i
    ELSE IndexOf(s, sep, i + 1)

\* strings.SplitN(s, sep, 2)
SplitN2(s, sep) ==
    LET i == IndexOf(s, sep, 1) IN
    IF i = 0 THEN <<s>>
    ELSE <<SubSeq(s, 1, i - 1), SubSeq(s, i + 1, Len(s))>>

LowerOf ==
    [c \in {"A", "D", "E", "H", "M", "S"} |->
        CASE c = "A" -> "a" [] c = "D" -> "d" [] c = "E" -> "e"
          [] c = "H" -> "h" [] c = "M" -> "m" [] c = "S" -> "s"]

RECURSIVE ToLower(_)
\* strings.ToLower
ToLower(s) ==
    IF Len(s) = 0 THEN ""
    ELSE LET c == SubSeq(s, 1, 1) IN
         (IF c \in DOMAIN LowerOf THEN LowerOf[c] ELSE c)
             \o ToLower(SubSeq(s, 2, Len(s)))

getAuth(password) ==
    LET parts == SplitN2(password, ":")
        passphrase == IF Len(parts) = 2 THEN parts[2] ELSE ""
        name == ToLower(parts[1])
    IN
    IF Len(parts) # 2 /\ parts[1] # ""
    THEN [protocol |-> "NoAuth", passphrase |-> "",
          err |-> Errorf("Auth password given with no protocol", "")]
    ELSE IF name = "md5"
    THEN [protocol |-> "MD5", passphrase |-> passphrase, err |-> NoError]
    ELSE IF name = "sha"
    THEN [protocol |-> "SHA", passphrase |-> passphrase, err |-> NoError]
    ELSE IF name = "" /\ Len(parts) = 1
    THEN [protocol |-> "NoAuth", passphrase |-> passphrase, err |-> NoError]
    ELSE [protocol |-> "NoAuth", passphrase |-> passphrase,
          err |-> Errorf("Authentication password given with invalid protocol",
                         parts[1])]

getPriv(password) ==
    LET parts == SplitN2(password, ":")
        passphrase == IF Len(parts) = 2 THEN parts[2] ELSE ""
        name == ToLower(parts[1])
    IN
    IF Len(parts) # 2 /\ parts[1] # ""
    THEN [protocol |-> "NoPriv", passphrase |-> "",
          err |-> Errorf("Privacy password given with no protocol", "")]
    ELSE IF name = "aes"
    THEN [protocol |-> "AES", passphrase |-> passphrase, err |-> NoError]
    ELSE IF name = "des"
    THEN [protocol |-> "DES", passphrase |-> passphrase, err |-> NoError]
    ELSE IF name = "" /\ Len(parts) = 1
    THEN [protocol |-> "NoPriv", passphrase |-> passphrase, err |-> NoError]
    ELSE [protocol |-> "NoPriv", passphrase |-> passphrase,
          err |-> Errorf("Privacy password given with invalid protocol",
                         parts[1])]

\* &gosnmp.UsmSecurityParameters{...}
UsmSecurityParameters(username, auth, priv) ==
    [set |-> TRUE, UserName |-> username,
     AuthenticationProtocol |-> auth.protocol,
     AuthenticationPassphrase |-> auth.passphrase,
     PrivacyProtocol |-> priv.protocol,
     PrivacyPassphrase |-> priv.passphrase]

\* A session whose SecurityParameters are nil.
NoSecurityParameters ==
    [set |-> FALSE, UserName |-> "",
     AuthenticationProtocol |-> "NoAuth", AuthenticationPassphrase |-> "",
     PrivacyProtocol |-> "NoPriv", PrivacyPassphrase |-> ""]

\* newSNMP, and the fields NewV1 / NewV2 / NewV3 set on its session.
newSNMP(version, community) ==
    [Version |-> version, Community |-> community, MsgFlags |-> "NoAuthNoPriv",
     SecurityParameters |-> NoSecurityParameters]

\* The msgFlags NewV3 selects, or "" where it rejects the configuration.
msgFlagsFor(authProtocol, privProtocol) ==
    IF authProtocol = "NoAuth"
    THEN IF privProtocol = "NoPriv" THEN "NoAuthNoPriv" ELSE ""
    ELSE IF privProtocol = "NoPriv" THEN "AuthNoPriv" ELSE "AuthPriv"

Usernames == {"admin", "monitor"}
AuthPasswords == {"", "md5:pw", "SHA:pw", "md5:", "pw", ":pw", "aes:pw"}
PrivPasswords == {"", "aes:pw", "DES:pw", "des:", "pw", ":pw", "md5:pw"}

InitSec ==
    /\ InitTbl
    /\ ixTable = [Index |-> <<IntegerIdx>>, Implied |-> FALSE]
    /\ ixLen = 0
    /\ ixParts = <<>>
    /\ ixOut = NoOut
    /\ snmp = NoClient
    /\ secErr = NoError

NewV1(community) ==
    /\ snmp = NoClient
    /\ snmp' = newSNMP("1", community)
    /\ secErr' = NoError
    /\ UNCHANGED <<ixVars, tblVars>>

NewV2(community) ==
    /\ snmp = NoClient
    /\ snmp' = newSNMP("2c", community)
    /\ secErr' = NoError
    /\ UNCHANGED <<ixVars, tblVars>>

NewV3(username, authPassword, privPassword) ==
    /\ snmp = NoClient
    /\ LET auth == getAuth(authPassword)
           priv == getPriv(privPassword)
           msgFlags == msgFlagsFor(auth.protocol, priv.protocol)
       IN
       IF auth.err # NoError
       THEN secErr' = auth.err /\ snmp' = snmp
       ELSE IF priv.err # NoError
       THEN secErr' = priv.err /\ snmp' = snmp
       ELSE IF msgFlags = ""
       THEN /\ secErr' = Errorf("Privacy given with no authentication", "")
            /\ snmp' = snmp
       ELSE /\ secErr' = NoError
            /\ snmp' = [newSNMP("3", "") EXCEPT
                           !.MsgFlags = msgFlags,
                           !.SecurityParameters =
                               UsmSecurityParameters(username, auth, priv)]
    /\ UNCHANGED <<ixVars, tblVars>>

SetSecurity(username, authPassword, privPassword) ==
    /\ snmp # NoClient
    /\ LET auth == getAuth(authPassword)
           priv == getPriv(privPassword)
       IN
       IF auth.err # NoError
       THEN secErr' = auth.err /\ snmp' = snmp
       ELSE IF priv.err # NoError
       THEN secErr' = priv.err /\ snmp' = snmp
       ELSE /\ secErr' = NoError
            /\ snmp' = [snmp EXCEPT !.SecurityParameters =
                           UsmSecurityParameters(username, auth, priv)]
    /\ UNCHANGED <<ixVars, tblVars>>

NextSec ==
    \/ NewV1("public")
    \/ NewV2("public")
    \/ \E u \in Usernames, a \in AuthPasswords, p \in PrivPasswords :
          NewV3(u, a, p)
    \/ \E u \in Usernames, a \in AuthPasswords, p \in PrivPasswords :
          SetSecurity(u, a, p)

SpecSec == InitSec /\ [][NextSec]_vars

\* C9: a version 3 client never holds a privacy mechanism without an
\* authentication mechanism, and its security mode agrees with the
\* mechanisms it holds.
C9_SecurityConsistent ==
    snmp.Version = "3" =>
        LET sp == snmp.SecurityParameters IN
        /\ ~(sp.PrivacyProtocol # "NoPriv" /\ sp.AuthenticationProtocol = "NoAuth")
        /\ snmp.MsgFlags =
              msgFlagsFor(sp.AuthenticationProtocol, sp.PrivacyProtocol)

====
